---- MODULE Spec2Model ----
(***************************************************************************)
(* The train/validate loop of "Part 5 - Inference and Validation           *)
(* (Exercises).ipynb": the baseline training cell (cell 7, lines 257-301), *)
(* the dropout training cell (cell 9, lines 440-488), which differs from   *)
(* it by the model class and by model.eval() / model.train(), and the      *)
(* inference cell (cell 12, lines 522-534).                                *)
(*                                                                         *)
(* Numbers.  Losses are integers in thousandths (0.4 is 400); means and    *)
(* accuracies are exact rationals [num, den] in lowest terms.  Floating    *)
(* point rounding of the sums is not modelled.                             *)
(*                                                                         *)
(* Library calls.  model(images), criterion, backward and optimizer.step   *)
(* are modelled by their effect on the driver: the tensor or loss they     *)
(* return is drawn from a small set, the state they change (the gradient   *)
(* buffer, the parameters, the autograd switch, the mode flag) is kept.    *)
(*                                                                         *)
(* Temporaries.  A tensor variable that is not read again before it is     *)
(* reassigned is set to NoTensor after its last use, so that states that   *)
(* differ only in such a value are one state.                              *)
(***************************************************************************)
EXTENDS Integers, Sequences, FiniteSets, TLC

\* ------------------------------------------------------------------ bounds
\* epochs = 30 in the notebook; the model runs the same loop for fewer.
epochs == 2
\* batch_size = 64 in the notebook; the model uses smaller batches.
BatchSize == 2
\* number of samples of the largest split the model draws
MaxSamples == 3
\* fc4 has 10 outputs in the notebook; the model uses fewer classes.
NumClasses == 2
\* how often the inference cell is run after the training cell
MaxInferences == 2

\* ------------------------------------------------------------- rationals
RECURSIVE GCD(_, _)
GCD(a, b) == IF b = 0 THEN a ELSE GCD(b, a % b)

Abs(x) == IF x < 0 THEN -x ELSE x

\* the rational n/d (d > 0) in lowest terms
Rat(n, d) ==
    LET g == GCD(Abs(n), d)
    IN  [num |-> n \div g, den |-> d \div g]

\* a sum that keeps only the value added last
RatAddOverwrite(a, b) == b

RatAdd(a, b) == Rat(a.num * b.den + b.num * a.den, a.den * b.den)

RatMul(a, k) == Rat(a.num * k, a.den)

Zero == Rat(0, 1)

\* Python's x / n on numbers: the quotient, or ZeroDivisionError for n = 0.
\* Callers test n = 0 first (the raising branch); here n > 0.
TrueDiv(x, n) == Rat(x.num, x.den * n)

\* format(x, ".3f") of a value counted in thousandths: the nearest integer
\* number of thousandths, a tie going to the even one.
Fmt3(x) ==
    LET q == x.num \div x.den
        r == x.num % x.den
    IN  IF 2 * r < x.den THEN q
        ELSE IF 2 * r > x.den THEN q + 1
        ELSE IF q % 2 = 0 THEN q ELSE q + 1

RECURSIVE SumSeq(_)
SumSeq(s) == IF s = <<>> THEN 0 ELSE Head(s) + SumSeq(Tail(s))

\* --------------------------------------------------------------- tensors
\* A tensor is [shape, flat]: its shape and its elements in row-major order.
Classes == 0 .. (NumClasses - 1)

\* A label the dataset can hold: a class, or NumClasses, the smallest index
\* outside [0, NumClasses) (spec 4.2: the loss must fail on it).
LabelVals == 0 .. NumClasses

\* the values criterion can return for a batch, in thousandths
LossValues == {400, 600}

\* log-probabilities (in thousandths of a nat) a log_softmax row can hold,
\* and the probability (in thousandths) each exponentiates to
LogPVals == {-1386, -693, -288}

ExpOf(lp) == CASE lp = -1386 -> 250
               [] lp = -693  -> 500
               [] lp = -288  -> 750

NoTensor == [shape |-> <<0>>, flat |-> <<>>]

\* the (n, 1)- or (n)-shaped tensors of n elements of S
RECURSIVE SeqsOf(_, _)
SeqsOf(S, n) ==
    IF n = 0 THEN {<<>>}
    ELSE {Append(s, x) : s \in SeqsOf(S, n - 1), x \in S}

\* labels of a batch of n samples: shape (n)
LabelTensors(n) == {[shape |-> <<n>>, flat |-> f] : f \in SeqsOf(LabelVals, n)}

\* one row of F.log_softmax(..., dim=1): log-probabilities over the classes
\* whose exponentials sum to 1
LogSoftmaxRows ==
    {r \in SeqsOf(LogPVals, NumClasses) :
        SumSeq([c \in 1 .. NumClasses |-> ExpOf(r[c])]) = 1000}

RECURSIVE RowsFlat(_)
RowsFlat(n) ==
    IF n = 0 THEN {<<>>}
    ELSE {f \o r : f \in RowsFlat(n - 1), r \in LogSoftmaxRows}

\* row i (1-based) of a 2-D tensor
Row(t, i) == SubSeq(t.flat, (i - 1) * t.shape[2] + 1, i * t.shape[2])

\* ----------------------------------------------------- the code's pieces
\* torch.utils.data.DataLoader(dataset of n samples, batch_size=BatchSize):
\* the sizes of the batches one pass yields; the last one may be smaller.
RECURSIVE DataLoader(_)
DataLoader(n) ==
    IF n = 0 THEN <<>>
    ELSE IF n <= BatchSize THEN <<n>>
    ELSE <<BatchSize>> \o DataLoader(n - BatchSize)

\* the model class each training cell constructs: Classifier (line 257) has
\* no dropout layer, DropoutClassifier (line 440) has self.dropout
HasDropout(d) == d = "dropout"

\* self.dropout(...) inside DropoutClassifier.forward: nn.Dropout(p=.2) is
\* active exactly when the module is in train mode
DropoutActive(d, m) == HasDropout(d) /\ m = "train"

\* the samples of the dataset a loader serves, numbered from 1
Dataset(loader) == 1 .. SumSeq(loader)

\* The rows model.forward may return for one input x under parameters p,
\* x = <<p, sample>>.  With dropout off the forward pass is a function of
\* parameters and input: what it returned before for x it returns again.
\* With dropout on, nn.Dropout draws a fresh random mask on every call.
NetRows(d, m, f, x) ==
    IF ~DropoutActive(d, m) /\ x \in DOMAIN f THEN {f[x]} ELSE RowsFlat(1)

\* the function the network computes with dropout off, as known after the
\* forward pass on x returned rows
Evaluated(d, m, f, x, rows) ==
    IF DropoutActive(d, m) \/ x \in DOMAIN f THEN f ELSE f @@ (x :> rows)

\* model(images) on a batch of n samples, the rows drawn by the caller:
\* the tensor remembers whether the graph was recorded and whether dropout
\* was applied
Forward(d, n, rows, m, ge) ==
    [shape |-> <<n, NumClasses>>, flat |-> rows,
     requires_grad |-> ge, dropout |-> DropoutActive(d, m)]

\* a loop without optimizer.zero_grad(): .grad keeps what it holds
ZeroGradSkipped(g) == g

\* optimizer.zero_grad()
ZeroGrad(g) == {}

\* loss.backward(): adds the batch's gradient to what .grad holds
BackwardGrad(g, batch) == g \cup {batch}

\* a step on parameters initialised anew
OptimizerStepOnNewModel(p) == 1

\* optimizer.step(): one more update of the parameters built at line 440
OptimizerStep(p) == p + 1

\* = written for +=: the total is overwritten
AddLossOverwrite(total, loss) == loss

\* an epoch that starts with the total the last one left
ResetSkipped(total) == total

\* running_loss = 0  /  test_loss = 0
Reset(total) == 0

\* running_loss += train_loss.item()  /  test_loss += criterion(...)
AddLoss(total, loss) == total + loss

\* a cell without model.eval(): the mode stays as it is
ModelEvalSkipped(m) == m

\* model.eval()
ModelEval(m) == "eval"

\* a loop without model.train(): the mode stays as it is
ModelTrainSkipped(m) == m

\* model.train()
ModelTrain(m) == "train"

\* torch.no_grad().__enter__: gradient tracking off
NoGradEnter(ge) == FALSE

\* an exit that leaves gradient tracking off
NoGradExitOff(saved) == FALSE

\* torch.no_grad().__exit__: gradient tracking as it was on entry
NoGradExit(saved) == saved

\* torch.exp(log_ps)
Exp(t) == [shape |-> t.shape, flat |-> [i \in 1 .. Len(t.flat) |-> ExpOf(t.flat[i])]]

\* the indices (classes) at which a row is largest
ArgMax(r) == {c \in Classes : \A d \in Classes : r[d + 1] <= r[c + 1]}

\* ps.topk(1, dim=1)[1]: the (n, 1) tensors of top classes; a row with equal
\* top probabilities admits each of its maximal indices
TopK1(t) ==
    {[shape |-> <<t.shape[1], 1>>, flat |-> f] :
        f \in {g \in SeqsOf(Classes, t.shape[1]) :
                 \A i \in 1 .. t.shape[1] : g[i] \in ArgMax(Row(t, i))}}

\* labels compared without the view: shape (n) against (n, 1)
ViewSkipped(t, shape) == t

\* labels.view(*top_class.shape)
View(t, shape) == [shape |-> shape, flat |-> t.flat]

\* a == b on tensors: elementwise for equal shapes; (n, 1) against (m)
\* broadcasts to (n, m)
TensorEq(a, b) ==
    IF a.shape = b.shape
    THEN [shape |-> a.shape,
          flat |-> [i \in 1 .. Len(a.flat) |-> a.flat[i] = b.flat[i]]]
    ELSE LET n == a.shape[1]
             m == b.shape[1]
         IN  [shape |-> <<n, m>>,
              flat |-> [k \in 1 .. n * m |->
                          a.flat[((k - 1) \div m) + 1] = b.flat[((k - 1) % m) + 1]]]

\* torch.mean(equals.type(torch.FloatTensor))
Mean(t) ==
    Rat(Cardinality({i \in 1 .. Len(t.flat) : t.flat[i]}), Len(t.flat))

\* the new mean put in front of the list
AppendMeanInFront(losses, total, n) == <<TrueDiv(Rat(total, 1), n)>> \o losses

\* a list rebuilt with the new mean alone
AppendMeanOverwrite(losses, total, n) == <<TrueDiv(Rat(total, 1), n)>>

\* losses.append(total/len(loader)), for a loader that is not empty
AppendMean(losses, total, n) == Append(losses, TrueDiv(Rat(total, 1), n))

\* the line print(f"Epoch {e+1} of {epochs} | ...") writes
ReportLine(ep, tl, vl, acc, nv) ==
    [epoch |-> ep + 1, of |-> epochs,
     train_loss |-> Fmt3(tl), test_loss |-> Fmt3(vl),
     accuracy |-> Fmt3(RatMul(TrueDiv(acc, nv), 100000))]

\* ----------------------------------------------------------------- state
VARIABLES
    driver,        \* the training cell that is run: "baseline" (cell 7,
                   \* lines 257-301) or "dropout" (cell 9, lines 440-488)
    pc,            \* the statement the kernel executes next
    train_cell,    \* the training cell: "running", "done" or "raised"
    infer_runs,    \* how often the inference cell has been started
    error,         \* the exception that ended the last cell, or "none"
    trainloader,   \* batch sizes of one pass over the training split
    testloader,    \* batch sizes of one pass over the validation split
    mode,          \* model.training: "train" or "eval"
    grad_enabled,  \* torch.is_grad_enabled()
    saved_grad,    \* what the torch.no_grad() context restores on exit
    params,        \* the model parameters: the number of updates applied
    grad,          \* the batches whose gradient .grad holds
    e,             \* the loop variable of "for e in range(epochs)"
    ti,            \* training batches fetched in this pass
    vi,            \* validation batches fetched in this pass
    running_loss,
    train_loss,
    test_loss,
    accuracy,
    labels,
    log_ps,
    ps,
    top_class,
    equals,
    train_losses,
    test_losses,
    out,           \* the lines printed by the training cell
    output,        \* the inference cell's output and ps
    img,           \* the sample the inference cell took from the test set
    net,           \* what the network computes with dropout off, for the
                   \* parameters and inputs it has been evaluated on
    infer_log,     \* input, parameters and ps of each finished inference
    trace,         \* the training steps, validation steps, appends and
                   \* printed lines of the training cell, in order
    phase,         \* the driver state of spec 4.4 the loop is in
    fwd,           \* the last forward pass: its phase, mode and grad flag
    ops,           \* the operations done on the current training batch
    step_grad,     \* the gradient the last optimizer.step() consumed
    seen,          \* total and count of the losses criterion returned in
                   \* the current epoch, per split
    passes         \* completed passes over each split

vars ==
    <<driver, pc, train_cell, infer_runs, error, trainloader, testloader, mode,
      grad_enabled, saved_grad, params, grad, e, ti, vi, running_loss,
      train_loss, test_loss, accuracy, labels, log_ps, ps, top_class, equals,
      train_losses, test_losses, out, output, img, net, infer_log, trace,
      phase, fwd, ops, step_grad, seen, passes>>

\* groups of variables an action leaves alone
loaders == <<driver, trainloader, testloader>>

inference == <<img, net, infer_log>>
cells == <<train_cell, infer_runs, error>>
autograd == <<grad_enabled, saved_grad>>
optim == <<params, grad, step_grad>>
counters == <<e, ti, vi>>
sums == <<running_loss, test_loss, accuracy>>
temps == <<train_loss, labels, log_ps, ps, top_class, equals>>
history == <<train_losses, test_losses, out>>
ghosts == <<phase, fwd, ops, seen, passes>>

NoneSeen == [train |-> 0, train_n |-> 0, test |-> 0, test_n |-> 0, hits |-> <<>>]

NoLoss == [val |-> 0, requires_grad |-> FALSE]

NoFwd == [kind |-> "none", mode |-> "train", grad |-> TRUE, dropout |-> FALSE, epoch |-> 0]

\* The state when line 265 (baseline) or 448 (dropout) is first reached: model, criterion and optimizer
\* constructed (a new nn.Module is in train mode, autograd is on), the
\* history lists empty.  The two splits are the cell's inputs.
Init ==
    /\ driver \in {"baseline", "dropout"}
    /\ pc = "for_epoch"
    /\ train_cell = "running"
    /\ infer_runs = 0
    /\ error = "none"
    /\ \E n \in 0 .. MaxSamples : trainloader = DataLoader(n)
    /\ \E n \in 0 .. MaxSamples : testloader = DataLoader(n)
    /\ mode = "train"
    /\ grad_enabled = TRUE
    /\ saved_grad = TRUE
    /\ params = 0
    /\ grad = {}
    /\ e = 0
    /\ ti = 0
    /\ vi = 0
    /\ running_loss = 0
    /\ train_loss = NoLoss
    /\ test_loss = 0
    /\ accuracy = Zero
    /\ labels = NoTensor
    /\ log_ps = NoTensor
    /\ ps = NoTensor
    /\ top_class = NoTensor
    /\ equals = NoTensor
    /\ train_losses = <<>>
    /\ test_losses = <<>>
    /\ out = <<>>
    /\ output = NoTensor
    /\ img = 0
    /\ net = <<>>
    /\ infer_log = <<>>
    /\ trace = <<>>
    /\ phase = "TrainingBatch"
    /\ fwd = NoFwd
    /\ ops = <<>>
    /\ step_grad = {}
    /\ seen = [epoch |-> 0, sums |-> NoneSeen]
    /\ passes = [train |-> 0, test |-> 0]

\* An exception leaves the cell: nothing catches it.  Inside the
\* "with torch.no_grad()" block the context manager's __exit__ runs first.
Raise(name, in_no_grad) ==
    /\ pc' = "idle"
    /\ train_cell' = IF train_cell = "running" THEN "raised" ELSE train_cell
    /\ error' = name
    /\ grad_enabled' = IF in_no_grad THEN NoGradExit(saved_grad) ELSE grad_enabled
    /\ UNCHANGED <<infer_runs, saved_grad>>

\* criterion returned loss for a batch of the given split in epoch e + 1:
\* the epoch's total and count of that split, kept apart from the driver's
\* own accumulators
Saw(split, loss) ==
    LET cur == IF seen.epoch = e + 1 THEN seen.sums ELSE NoneSeen
    IN  [epoch |-> e + 1,
         sums |-> IF split = "train"
                  THEN [cur EXCEPT !.train = @ + loss, !.train_n = @ + 1]
                  ELSE [cur EXCEPT !.test = @ + loss, !.test_n = @ + 1]]

\* the samples of a batch whose predicted class is their label, counted one
\* by one
Hits(pred, lab) ==
    Cardinality({i \in 1 .. Len(lab.flat) : pred.flat[i] = lab.flat[i]})

\* range(epochs) has a next value after yielding i values
\* a range that stops one value early
RangeOneLess(i, n) == i < n - 1

RangeHasNext(i, n) == i < n

\* a baseline driver that has the two mode switches too
SwitchesModeAlways(d) == TRUE

\* the driver has the statements model.eval() (line 468) and model.train()
\* (line 488): the dropout driver has them, the baseline driver (lines
\* 278-301) has neither
SwitchesMode(d) == d = "dropout"

\* a loop that leaves for its else clause before the last batch
HasNextButLast(i, loader) == i + 1 < Len(loader)

\* "for images, labels in loader" has a next batch after yielding i batches;
\* when it has none the loop ends and, having no break, runs its else clause
HasNext(i, loader) == i < Len(loader)

\* a validation loop whose body is the training body
TestBodyOfTraining == "zero_grad"

\* the first statement of the validation loop's body (line 471)
TestBody == "val_forward"

\* ------------- the training cells, lines 265-301 and 448-488 (the line
\* numbers in the comments below are those of the dropout driver)
\* for e in range(epochs): running_loss = 0          (e counts the epochs
\* completed, which is the value range(epochs) yields next)
ForEpoch ==
    /\ pc = "for_epoch"
    /\ IF RangeHasNext(e, epochs)
       THEN /\ running_loss' = Reset(running_loss)
            /\ ti' = 0
            /\ pc' = "for_train"
            /\ phase' = "TrainingBatch"
            /\ UNCHANGED train_cell
       ELSE /\ pc' = "idle"
            /\ train_cell' = "done"
            /\ UNCHANGED <<running_loss, ti, phase>>
    /\ UNCHANGED <<infer_runs, error, loaders, trace, inference, mode, autograd,
                   optim, e, vi, test_loss, accuracy, temps, history, output,
                   fwd, ops, seen, passes>>

\* for images, labels in trainloader: ... else:
ForTrain ==
    /\ pc = "for_train"
    /\ IF HasNext(ti, trainloader)
       THEN /\ ti' = ti + 1
            /\ labels' \in LabelTensors(trainloader[ti + 1])
            /\ ops' = <<>>
            /\ pc' = "zero_grad"
            /\ UNCHANGED <<phase, passes>>
       ELSE /\ pc' = "val_init"
            /\ phase' = "EpochValidation"
            /\ passes' = [passes EXCEPT !.train = @ + 1]
            /\ UNCHANGED <<ti, labels, ops>>
    /\ UNCHANGED <<cells, loaders, trace, inference, mode, autograd, optim, e,
                   vi, sums, train_loss, log_ps, ps, top_class, equals, history,
                   output, fwd, seen>>

\* optimizer.zero_grad()
TrainZeroGrad ==
    /\ pc = "zero_grad"
    /\ grad' = ZeroGrad(grad)
    /\ ops' = Append(ops, "zero_grad")
    /\ pc' = "train_forward"
    /\ UNCHANGED <<cells, loaders, trace, inference, mode, autograd, params,
                   step_grad, counters, sums, temps, history, output, phase,
                   fwd, seen, passes>>

\* log_ps = model(images)
TrainForward ==
    /\ pc = "train_forward"
    /\ \E rows \in RowsFlat(labels.shape[1]) :
          log_ps' = Forward(driver, labels.shape[1], rows, mode, grad_enabled)
    /\ fwd' = [kind |-> phase, mode |-> mode, grad |-> grad_enabled,
               dropout |-> DropoutActive(driver, mode), epoch |-> e + 1]
    /\ ops' = Append(ops, "forward")
    /\ pc' = "train_criterion"
    /\ UNCHANGED <<cells, loaders, trace, inference, mode, autograd, optim,
                   counters, sums, train_loss, labels, ps, top_class, equals,
                   history, output, phase, seen, passes>>

\* train_loss = criterion(log_ps, labels): NLLLoss fails on a label outside
\* [0, NumClasses).  log_ps and labels are not read again before they are
\* reassigned, so they are dropped here.
TrainCriterion ==
    /\ pc = "train_criterion"
    /\ IF \E i \in 1 .. Len(labels.flat) : labels.flat[i] \notin Classes
       THEN /\ Raise("IndexError", FALSE)
            /\ UNCHANGED <<train_loss, labels, log_ps, ops, seen>>
       ELSE /\ \E l \in LossValues :
                  /\ train_loss' = [val |-> l, requires_grad |-> log_ps.requires_grad]
                  /\ seen' = Saw("train", l)
            /\ labels' = NoTensor
            /\ log_ps' = NoTensor
            /\ ops' = Append(ops, "loss")
            /\ pc' = "backward"
            /\ UNCHANGED <<cells, autograd>>
    /\ UNCHANGED <<loaders, trace, inference, mode, optim, counters, sums, ps,
                   top_class, equals, history, output, phase, fwd, passes>>

\* train_loss.backward(): fails on a loss computed without gradient tracking
TrainBackward ==
    /\ pc = "backward"
    /\ IF ~train_loss.requires_grad
       THEN /\ Raise("RuntimeError", FALSE)
            /\ UNCHANGED <<grad, ops>>
       ELSE /\ grad' = BackwardGrad(grad, <<e + 1, ti>>)
            /\ ops' = Append(ops, "backward")
            /\ pc' = "optimizer_step"
            /\ UNCHANGED <<cells, autograd>>
    /\ UNCHANGED <<loaders, trace, inference, mode, params, step_grad, counters,
                   sums, temps, history, output, phase, fwd, seen, passes>>

\* optimizer.step()
TrainStep ==
    /\ pc = "optimizer_step"
    /\ params' = OptimizerStep(params)
    /\ step_grad' = grad
    /\ ops' = Append(ops, "step")
    /\ pc' = "accumulate"
    /\ UNCHANGED <<cells, loaders, trace, inference, mode, autograd, grad,
                   counters, sums, temps, history, output, phase, fwd, seen,
                   passes>>

\* running_loss += train_loss.item()
TrainAccumulate ==
    /\ pc = "accumulate"
    /\ running_loss' = AddLoss(running_loss, train_loss.val)
    /\ train_loss' = NoLoss
    /\ ops' = Append(ops, "accumulate")
    /\ trace' = Append(trace, "train")
    /\ pc' = "for_train"
    /\ UNCHANGED <<cells, loaders, inference, mode, autograd, optim, counters,
                   test_loss, accuracy, labels, log_ps, ps, top_class, equals,
                   history, output, phase, fwd, seen, passes>>

\* test_loss = 0; accuracy = 0
ValInit ==
    /\ pc = "val_init"
    /\ test_loss' = Reset(test_loss)
    /\ accuracy' = Zero
    /\ pc' = "no_grad"
    /\ UNCHANGED <<cells, loaders, trace, inference, mode, autograd, optim,
                   counters, running_loss, temps, history, output, ghosts>>

\* with torch.no_grad():
WithNoGrad ==
    /\ pc = "no_grad"
    /\ saved_grad' = grad_enabled
    /\ grad_enabled' = NoGradEnter(grad_enabled)
    /\ pc' = "model_eval"
    /\ UNCHANGED <<cells, loaders, trace, inference, mode, optim, counters,
                   sums, temps, history, output, ghosts>>

\* model.eval(): line 468 of the dropout driver; the baseline driver has
\* no such statement and goes on to its validation loop
EvalMode ==
    /\ pc = "model_eval"
    /\ mode' = IF SwitchesMode(driver) THEN ModelEval(mode) ELSE mode
    /\ vi' = 0
    /\ trace' = IF SwitchesMode(driver) THEN Append(trace, "model.eval") ELSE trace
    /\ pc' = "for_test"
    /\ UNCHANGED <<cells, loaders, inference, autograd, optim, e, ti, sums,
                   temps, history, output, ghosts>>

\* for images, labels in testloader:   and, when the split is exhausted, the
\* end of the with block
ForTest ==
    /\ pc = "for_test"
    /\ IF HasNext(vi, testloader)
       THEN /\ vi' = vi + 1
            /\ labels' \in LabelTensors(testloader[vi + 1])
            /\ pc' = TestBody
            /\ UNCHANGED <<grad_enabled, phase, passes>>
       ELSE /\ grad_enabled' = NoGradExit(saved_grad)
            /\ labels' = NoTensor
            /\ pc' = "append_train"
            /\ phase' = "EpochReport"
            /\ passes' = [passes EXCEPT !.test = @ + 1]
            /\ UNCHANGED vi
    /\ top_class' = NoTensor
    /\ equals' = NoTensor
    /\ UNCHANGED <<cells, loaders, trace, inference, mode, saved_grad, optim, e,
                   ti, sums, train_loss, log_ps, ps, history, output, fwd, ops,
                   seen>>

\* log_ps = model(images)
ValForward ==
    /\ pc = "val_forward"
    /\ \E rows \in RowsFlat(labels.shape[1]) :
          log_ps' = Forward(driver, labels.shape[1], rows, mode, grad_enabled)
    /\ fwd' = [kind |-> phase, mode |-> mode, grad |-> grad_enabled,
               dropout |-> DropoutActive(driver, mode), epoch |-> e + 1]
    /\ pc' = "val_criterion"
    /\ UNCHANGED <<cells, loaders, trace, inference, mode, autograd, optim,
                   counters, sums, train_loss, labels, ps, top_class, equals,
                   history, output, phase, ops, seen, passes>>

\* test_loss += criterion(log_ps, labels)
ValCriterion ==
    /\ pc = "val_criterion"
    /\ IF \E i \in 1 .. Len(labels.flat) : labels.flat[i] \notin Classes
       THEN /\ Raise("IndexError", TRUE)
            /\ UNCHANGED <<test_loss, seen>>
       ELSE /\ \E l \in LossValues :
                  /\ test_loss' = AddLoss(test_loss, l)
                  /\ seen' = Saw("test", l)
            /\ pc' = "exp"
            /\ UNCHANGED <<cells, autograd>>
    /\ UNCHANGED <<loaders, trace, inference, mode, optim, counters,
                   running_loss, accuracy, temps, history, output, phase, fwd,
                   ops, passes>>

\* ps = torch.exp(log_ps)
ValExp ==
    /\ pc = "exp"
    /\ ps' = Exp(log_ps)
    /\ log_ps' = NoTensor
    /\ pc' = "topk"
    /\ UNCHANGED <<cells, loaders, trace, inference, mode, autograd, optim,
                   counters, sums, train_loss, labels, top_class, equals,
                   history, output, ghosts>>

\* top_p, top_class = ps.topk(1, dim=1)      (top_p is never read)
ValTopK ==
    /\ pc = "topk"
    /\ top_class' \in TopK1(ps)
    /\ pc' = "equals"
    /\ UNCHANGED <<cells, loaders, trace, inference, mode, autograd, optim,
                   counters, sums, train_loss, labels, log_ps, ps, equals,
                   history, output, ghosts>>

\* equals = top_class == labels.view(*top_class.shape)
ValEquals ==
    /\ pc = "equals"
    /\ equals' = TensorEq(top_class, View(labels, top_class.shape))
    /\ ps' = NoTensor
    /\ pc' = "accuracy"
    /\ UNCHANGED <<cells, loaders, trace, inference, mode, autograd, optim,
                   counters, sums, train_loss, labels, log_ps, top_class,
                   history, output, ghosts>>

\* accuracy += torch.mean(equals.type(torch.FloatTensor))
ValAccuracy ==
    /\ pc = "accuracy"
    /\ accuracy' = RatAdd(accuracy, Mean(equals))
    /\ seen' = [seen EXCEPT !.sums.hits = Append(@, Hits(top_class, labels))]
    /\ trace' = Append(trace, "val")
    /\ pc' = "for_test"
    /\ UNCHANGED <<cells, loaders, inference, mode, autograd, optim, counters,
                   running_loss, test_loss, temps, history, output, phase, fwd,
                   ops, passes>>

\* train_losses.append(running_loss/len(trainloader))
AppendTrainLoss ==
    /\ pc = "append_train"
    /\ IF Len(trainloader) = 0
       THEN /\ Raise("ZeroDivisionError", FALSE)
            /\ UNCHANGED <<train_losses, trace>>
       ELSE /\ train_losses' = AppendMean(train_losses, running_loss, Len(trainloader))
            /\ trace' = Append(trace, "append")
            /\ pc' = "append_test"
            /\ UNCHANGED <<cells, autograd>>
    /\ UNCHANGED <<loaders, inference, mode, optim, counters, sums, temps,
                   test_losses, out, output, ghosts>>

\* test_losses.append(test_loss/len(testloader))
AppendTestLoss ==
    /\ pc = "append_test"
    /\ IF Len(testloader) = 0
       THEN /\ Raise("ZeroDivisionError", FALSE)
            /\ UNCHANGED <<test_losses, trace>>
       ELSE /\ test_losses' = AppendMean(test_losses, test_loss, Len(testloader))
            /\ trace' = Append(trace, "append")
            /\ pc' = "print"
            /\ UNCHANGED <<cells, autograd>>
    /\ UNCHANGED <<loaders, inference, mode, optim, counters, sums, temps,
                   train_losses, out, output, ghosts>>

\* print(f"Epoch {e+1} of {epochs} | Train Loss: ... | Accuracy: ...%")
PrintReport ==
    /\ pc = "print"
    /\ out' = Append(out, ReportLine(e, train_losses[Len(train_losses)],
                                     test_losses[Len(test_losses)],
                                     accuracy, Len(testloader)))
    /\ trace' = Append(trace, "report")
    /\ pc' = "model_train"
    /\ UNCHANGED <<cells, loaders, inference, mode, autograd, optim, counters,
                   sums, temps, train_losses, test_losses, output, ghosts>>

\* model.train(): line 488 of the dropout driver; the baseline driver has
\* no such statement.  The body of the epoch ends here.
TrainMode ==
    /\ pc = "model_train"
    /\ mode' = IF SwitchesMode(driver) THEN ModelTrain(mode) ELSE mode
    /\ e' = e + 1
    /\ trace' = IF SwitchesMode(driver) THEN Append(trace, "model.train") ELSE trace
    /\ pc' = "for_epoch"
    /\ UNCHANGED <<cells, loaders, inference, autograd, optim, ti, vi, sums,
                   temps, history, output, ghosts>>

\* --------------------------------------- the inference cell, lines 522-534
\* model.eval().  The notebook is run top to bottom and a cell that raises
\* stops the run, so the cell starts once the dropout training cell, which
\* built the model it uses, has ended without an error; it may be run again.
InferEval ==
    /\ pc = "idle"
    /\ driver = "dropout"
    /\ train_cell = "done"
    /\ infer_runs < MaxInferences
    /\ infer_runs' = infer_runs + 1
    /\ mode' = ModelEval(mode)
    /\ phase' = "Inference"
    /\ pc' = "inf_next"
    /\ UNCHANGED <<train_cell, error, loaders, trace, inference, autograd,
                   optim, counters, sums, temps, history, output, fwd, ops,
                   seen, passes>>

\* images, labels = dataiter.next(); img = images[0].view(1, 784)
\* (the labels of this batch are never read: they are not kept)
InferNext ==
    /\ pc = "inf_next"
    /\ IF Len(testloader) = 0
       THEN Raise("StopIteration", FALSE) /\ UNCHANGED img
       ELSE /\ \E i \in Dataset(testloader) : img' = i
            /\ pc' = "inf_no_grad"
            /\ UNCHANGED <<cells, autograd>>
    /\ UNCHANGED <<loaders, trace, net, infer_log, mode, optim, counters, sums,
                   temps, history, output, ghosts>>

\* with torch.no_grad():
InferNoGrad ==
    /\ pc = "inf_no_grad"
    /\ saved_grad' = grad_enabled
    /\ grad_enabled' = NoGradEnter(grad_enabled)
    /\ pc' = "inf_forward"
    /\ UNCHANGED <<cells, loaders, trace, inference, mode, optim, counters,
                   sums, temps, history, output, ghosts>>

\* output = model.forward(img), and the end of the with block
InferForward ==
    /\ pc = "inf_forward"
    /\ \E rows \in NetRows(driver, mode, net, <<params, img>>) :
          /\ output' = Forward(driver, 1, rows, mode, grad_enabled)
          /\ net' = Evaluated(driver, mode, net, <<params, img>>, rows)
    /\ fwd' = [kind |-> phase, mode |-> mode, grad |-> grad_enabled,
               dropout |-> DropoutActive(driver, mode), epoch |-> e]
    /\ grad_enabled' = NoGradExit(saved_grad)
    /\ pc' = "inf_exp"
    /\ UNCHANGED <<cells, loaders, trace, img, infer_log, mode, saved_grad,
                   optim, counters, sums, temps, history, phase, ops, seen,
                   passes>>

\* ps = torch.exp(output)
InferExp ==
    /\ pc = "inf_exp"
    /\ ps' = Exp(output)
    /\ infer_log' = Append(infer_log, [img |-> img, params |-> params,
                                       ps |-> Exp(output)])
    /\ pc' = "idle"
    /\ UNCHANGED <<cells, loaders, trace, img, net, mode, autograd, optim,
                   counters, sums, train_loss, labels, log_ps, top_class,
                   equals, history, output, ghosts>>

\* ------------------------------------------------------- specifications
Next ==
    \/ ForEpoch
    \/ ForTrain
    \/ TrainZeroGrad
    \/ TrainForward
    \/ TrainCriterion
    \/ TrainBackward
    \/ TrainStep
    \/ TrainAccumulate
    \/ ValInit
    \/ WithNoGrad
    \/ EvalMode
    \/ ForTest
    \/ ValForward
    \/ ValCriterion
    \/ ValExp
    \/ ValTopK
    \/ ValEquals
    \/ ValAccuracy
    \/ AppendTrainLoss
    \/ AppendTestLoss
    \/ PrintReport
    \/ TrainMode
    \/ InferEval
    \/ InferNext
    \/ InferNoGrad
    \/ InferForward
    \/ InferExp

Spec == Init /\ [][Next]_vars

\* The kernel runs a started cell to its end: every enabled statement is
\* eventually executed.
FairSpec == Spec /\ WF_vars(Next)

\* --------------------------------------------------------------- claims
Last(q) == q[Len(q)]

\* C1 (as claimed): every exit from the validation pass leaves the model in
\* train mode: when validation raised and the cell ended, and when the epoch
\* has been left normally, mode = "train".
C1_ModeRestoredOnEveryExit ==
    (/\ driver = "dropout"
     /\ \/ train_cell = "raised" /\ phase = "EpochValidation"
        \/ pc = "for_epoch" /\ e > 0)
        => mode = "train"

\* C2: every forward pass on a training batch runs in train mode with dropout
\* active, every forward pass on a validation batch in eval mode with dropout
\* inactive, in the first and in every later epoch.
C2_DropoutOnlyInTrainMode ==
    driver = "dropout" =>
        /\ fwd.kind # "none" => (fwd.dropout <=> fwd.mode = "train")
        /\ fwd.kind = "TrainingBatch" => fwd.mode = "train" /\ fwd.dropout
        /\ fwd.kind = "EpochValidation" => fwd.mode = "eval" /\ ~fwd.dropout

\* a training forward pass of the second epoch, after the first epoch's
\* validation switched the model to eval
C2_Witness ==
    /\ driver = "dropout"
    /\ fwd.kind = "TrainingBatch"
    /\ fwd.epoch = 2
    /\ fwd.dropout
    /\ pc = "train_criterion"

BatchOrder == <<"zero_grad", "forward", "loss", "backward", "step", "accumulate">>

\* C3: the operations on a training batch are done in the order zero
\* gradients, forward, loss, backpropagate, optimizer step, accumulate, and
\* the gradient an optimizer step consumes is that of the current batch alone.
C3_BatchOrderAndFreshGradient ==
    /\ Len(ops) <= Len(BatchOrder)
    /\ ops = SubSeq(BatchOrder, 1, Len(ops))
    /\ pc = "accumulate" => step_grad = {<<e + 1, ti>>}

\* the optimizer step of the second batch of the second epoch
C3_Witness ==
    /\ pc = "accumulate"
    /\ e = 1
    /\ ti = 2
    /\ step_grad = {<<2, 2>>}

\* C4: the cell ends, and when it ends without an error it has made epochs
\* passes over each split and printed epochs lines, numbered 1, 2, ... in
\* order, each showing the total epochs.
C4_FixedNumberOfEpochs ==
    /\ <>(train_cell # "running")
    /\ [](train_cell = "done" =>
            /\ passes.train = epochs
            /\ passes.test = epochs
            /\ Len(out) = epochs
            /\ \A i \in 1 .. Len(out) : out[i].epoch = i /\ out[i].of = epochs)

\* the cell has ended without an error after its last line
C4_Witness ==
    /\ train_cell = "done"
    /\ Len(out) = epochs
    /\ out[epochs].epoch = epochs
    /\ Len(trainloader) = 2

\* C5: the training loss an epoch records and prints is the total of the
\* losses of that epoch's training batches over the number of training
\* batches, the validation loss likewise; each batch is counted once.
C5_MeanLosses ==
    pc = "model_train" =>
        /\ seen.epoch = e + 1
        /\ seen.sums.train_n = Len(trainloader)
        /\ seen.sums.test_n = Len(testloader)
        /\ Last(train_losses) = Rat(seen.sums.train, Len(trainloader))
        /\ Last(test_losses) = Rat(seen.sums.test, Len(testloader))
        /\ Last(out).train_loss = Fmt3(Rat(seen.sums.train, Len(trainloader)))
        /\ Last(out).test_loss = Fmt3(Rat(seen.sums.test, Len(testloader)))

\* two training batches with losses 0.4 and 0.6 are reported as 0.500
C5_Witness ==
    /\ pc = "model_train"
    /\ Len(trainloader) = 2
    /\ seen.sums.train = 1000
    /\ Last(out).train_loss = 500
    /\ Len(testloader) = 2

\* the samples of the current validation batch whose predicted class is
\* their label
Matches == {i \in 1 .. Len(labels.flat) : top_class.flat[i] = labels.flat[i]}

\* C6: the predicted class of a sample is an index of its largest
\* probability, and the accuracy of a batch of n samples is the number of
\* samples whose predicted class equals the label, over n.
C6_BatchAccuracy ==
    /\ pc = "equals" =>
          \A i \in 1 .. ps.shape[1] : \A c \in 1 .. NumClasses :
              Row(ps, i)[c] <= Row(ps, i)[top_class.flat[i] + 1]
    /\ pc = "accuracy" =>
          /\ Len(equals.flat) = Len(labels.flat)
          /\ Mean(equals) = Rat(Cardinality(Matches), Len(labels.flat))

\* a batch of two samples of which one is classified correctly
C6_Witness ==
    /\ pc = "accuracy"
    /\ Len(labels.flat) = 2
    /\ Cardinality(Matches) = 1
    /\ Mean(equals) = Rat(1, 2)

\* the lists the driver appends to (line 447)
Histories == [train_loss |-> train_losses, test_loss |-> test_losses]

HistoryLen(m) == IF m \in DOMAIN Histories THEN Len(Histories[m]) ELSE 0

\* C7 (as claimed): after k completed epochs the history holds k entries for
\* each of mean training loss, mean validation loss and mean accuracy.
C7_ThreeMetricsInHistory ==
    pc = "for_epoch" =>
        \A m \in {"train_loss", "test_loss", "accuracy"} : HistoryLen(m) = e

\* C7 (amended): after k completed epochs train_losses and test_losses hold
\* k entries each and k lines have been printed; the accuracy is kept in no
\* list.
C7_TwoMetricsInHistory ==
    pc = "for_epoch" =>
        /\ Len(train_losses) = e
        /\ Len(test_losses) = e
        /\ Len(out) = e
        /\ DOMAIN Histories = {"train_loss", "test_loss"}

\* two epochs completed
C7_Witness ==
    /\ pc = "for_epoch"
    /\ e = 2
    /\ Len(train_losses) = 2
    /\ Len(test_losses) = 2

\* C8 (as claimed): an empty split never makes the driver divide by zero;
\* the cell ends with a configuration error instead.
C8_EmptySplitGuarded ==
    /\ error # "ZeroDivisionError"
    /\ (train_cell = "raised" /\ phase = "EpochReport") => error = "ConfigurationError"

ValidationAndReport == {"EpochValidation", "EpochReport"}

\* a step that, taken in the validation or report phase, is no zero-grad,
\* backpropagation or optimizer step and changes no parameter or gradient
ReadOnlyStep ==
    phase \in ValidationAndReport =>
        /\ pc \notin {"zero_grad", "backward", "optimizer_step"}
        /\ params' = params
        /\ grad' = grad
        /\ step_grad' = step_grad

\* C9: during the validation and report phases no zero-grad, backpropagation
\* or optimizer step is executed and parameters and gradients do not change.
C9_ParametersReadOnlyInValidation == [][ReadOnlyStep]_vars

\* the report of an epoch that trained on two batches and validated two
C9_Witness ==
    /\ phase = "EpochReport"
    /\ pc = "print"
    /\ params = 2
    /\ passes.test = 1
    /\ Len(testloader) = 2

\* C10: every forward pass of validation and of inference runs with gradient
\* tracking off, every training forward pass with it on.
C10_GradientTracking ==
    /\ fwd.kind \in {"EpochValidation", "Inference"} => ~fwd.grad
    /\ fwd.kind = "TrainingBatch" => fwd.grad

\* a training forward pass that follows a validation pass
C10_Witness ==
    /\ fwd.kind = "TrainingBatch"
    /\ fwd.epoch = 2
    /\ fwd.grad
    /\ passes.test = 1
    /\ pc = "backward"

\* C11 (as claimed): an exception raised by an operation of an epoch ends
\* the cell; the epoch it was raised in has appended nothing to train_losses
\* or test_losses and printed no line, and the entries of the e epochs
\* completed before it are all that the lists hold.
C11_AbortedEpochRecordsNothing ==
    train_cell = "raised" =>
        /\ pc = "idle"
        /\ error # "none"
        /\ Len(train_losses) = e
        /\ Len(test_losses) = e
        /\ Len(out) = e

\* a step of the inference cell changes no parameter and no gradient
InferenceKeepsParameters ==
    (phase = "Inference" \/ phase' = "Inference") =>
        /\ params' = params
        /\ grad' = grad

\* C12: the inference cell runs its forward pass in eval mode with dropout
\* off and gradient tracking off, two runs of it on the same sample with the
\* parameters unchanged give the same ps, and no step of it changes a
\* parameter.
C12_InferenceIdempotent ==
    /\ [](/\ fwd.kind = "Inference" =>
                fwd.mode = "eval" /\ ~fwd.dropout /\ ~fwd.grad
          /\ pc = "inf_exp" => ~output.dropout /\ ~output.requires_grad
          /\ \A i, j \in DOMAIN infer_log :
                (infer_log[i].img = infer_log[j].img
                    /\ infer_log[i].params = infer_log[j].params)
                    => infer_log[i].ps = infer_log[j].ps)
    /\ [][InferenceKeepsParameters]_vars

\* the cell was run twice on the same sample
C12_Witness ==
    /\ Len(infer_log) = 2
    /\ infer_log[1].img = infer_log[2].img
    /\ infer_log[1].ps = infer_log[2].ps
    /\ infer_log[1].params = epochs * Len(trainloader)
    /\ Len(trainloader) = 2
    /\ pc = "idle"

\* C14: in every epoch the validation pass starts only when the training
\* loop has fetched every training batch, the line is printed only when the
\* validation loop has fetched every validation batch, no training batch of
\* the next epoch is fetched before the line of this epoch is printed, and
\* each epoch makes one validation pass.
C14_PhaseOrder ==
    /\ phase = "TrainingBatch" =>
          /\ passes.train = e
          /\ passes.test = e
          /\ Len(out) = e
          /\ ti <= Len(trainloader)
    /\ phase = "EpochValidation" =>
          /\ ti = Len(trainloader)
          /\ passes.train = e + 1
          /\ passes.test = e
          /\ Len(out) = e
    /\ (phase = "EpochReport" /\ train_cell = "running" /\ pc # "for_epoch") =>
          /\ ti = Len(trainloader)
          /\ vi = Len(testloader)
          /\ passes.train = e + 1
          /\ passes.test = e + 1
          /\ Len(out) \in {e, e + 1}
    /\ (phase = "EpochReport" /\ pc = "for_epoch") =>
          /\ passes.train = e
          /\ passes.test = e
          /\ Len(out) = e
    /\ Len(out) <= passes.test
    /\ passes.test <= passes.train

\* the second epoch's validation pass, begun after both training batches
C14_Witness ==
    /\ phase = "EpochValidation"
    /\ e = 1
    /\ pc = "val_forward"
    /\ vi = 2
    /\ Len(trainloader) = 2
    /\ passes.test = 1
    /\ Len(out) = 1

RECURSIVE Product(_)
Product(q) == IF q = <<>> THEN 1 ELSE Head(q) * Product(Tail(q))

RECURSIVE Scaled(_, _, _)
Scaled(h, sizes, d) ==
    IF h = <<>> THEN 0
    ELSE Head(h) * (d \div Head(sizes)) + Scaled(Tail(h), Tail(sizes), d)

\* the sum over the batches of (correct samples of the batch / its size)
SumOfBatchMeans(h, sizes) == Rat(Scaled(h, sizes, Product(sizes)), Product(sizes))

\* correct validation samples over validation samples
SampleAccuracy(h, sizes) == Rat(SumSeq(h), SumSeq(sizes))

EqualBatches(sizes) == \A i \in DOMAIN sizes : sizes[i] = sizes[1]

\* C15: the accuracy an epoch prints is the sum of the batch accuracies over
\* the number of validation batches; it is the share of correctly classified
\* validation samples when all validation batches have one size, and differs
\* from that share only when the last batch is smaller than the others.
C15_MeanOfBatchAccuracies ==
    pc = "model_train" =>
        LET h == seen.sums.hits
            reported == TrueDiv(accuracy, Len(testloader))
        IN  /\ Len(h) = Len(testloader)
            /\ accuracy = SumOfBatchMeans(h, testloader)
            /\ Last(out).accuracy = Fmt3(RatMul(reported, 100000))
            /\ EqualBatches(testloader) => reported = SampleAccuracy(h, testloader)
            /\ reported # SampleAccuracy(h, testloader) =>
                  /\ Len(testloader) > 1
                  /\ \A i \in 1 .. Len(testloader) - 1 :
                        Last(testloader) < testloader[i]

\* batches of two and one samples with one sample right in each: 75.000 is
\* printed, two of three samples are right
C15_Witness ==
    /\ pc = "model_train"
    /\ testloader = <<2, 1>>
    /\ seen.sums.hits = <<1, 1>>
    /\ Last(out).accuracy = 75000
    /\ SampleAccuracy(seen.sums.hits, testloader) = Rat(2, 3)

\* what criterion has returned so far in the epoch being run
ThisEpoch == IF seen.epoch = e + 1 THEN seen.sums ELSE NoneSeen

\* C16: the three accumulators are set to zero in every epoch before they
\* are added to: at each point of epoch e + 1 running_loss, test_loss and
\* accuracy hold what the batches of that epoch contributed and nothing of
\* an earlier epoch, and so do the values the epoch records and prints.
C16_AccumulatorsFreshEachEpoch ==
    train_cell = "running" =>
        /\ pc \in {"for_train", "zero_grad", "train_forward", "train_criterion"}
              => running_loss = ThisEpoch.train
        /\ pc \in {"backward", "optimizer_step", "accumulate"}
              => running_loss + train_loss.val = ThisEpoch.train
        /\ (phase \in ValidationAndReport /\ pc # "for_epoch")
              => running_loss = ThisEpoch.train
        /\ (phase \in ValidationAndReport /\ pc \notin {"for_epoch", "val_init"})
              => /\ test_loss = ThisEpoch.test
                 /\ accuracy = SumOfBatchMeans(ThisEpoch.hits,
                        SubSeq(testloader, 1, Len(ThisEpoch.hits)))
        /\ pc = "model_train"
              => /\ train_losses[e + 1] = Rat(ThisEpoch.train, Len(trainloader))
                 /\ test_losses[e + 1] = Rat(ThisEpoch.test, Len(testloader))
                 /\ out[e + 1].train_loss = Fmt3(train_losses[e + 1])
                 /\ out[e + 1].test_loss = Fmt3(test_losses[e + 1])

\* the second epoch after its first training batch: the first epoch's total
\* of 1.2 is not in running_loss
C16_Witness ==
    /\ e = 1
    /\ pc = "for_train"
    /\ ti = 1
    /\ train_losses = <<Rat(1200, 2)>>
    /\ running_loss = 400
    /\ accuracy # Zero
    /\ test_loss > 0

\* the parameters are changed by optimizer.step() alone, one update a time
OnlyOptimizerStepUpdates ==
    params' # params => pc = "optimizer_step" /\ params' = params + 1

\* C17: the parameters are built once and never reset in the loop, one
\* optimizer step is applied per training batch: after k completed epochs
\* over B training batches k * B steps have been applied, and an epoch
\* starts from the parameters the last batch of the epoch before left.
C17_OneStepPerTrainingBatch ==
    /\ [](/\ (train_cell = "running" /\ pc = "for_epoch")
                => params = e * Len(trainloader)
          /\ pc \in {"for_train", "accumulate"}
                => params = e * Len(trainloader) + ti
          /\ pc \in {"zero_grad", "train_forward", "train_criterion",
                      "backward", "optimizer_step"}
                => params = e * Len(trainloader) + ti - 1
          /\ (train_cell = "running" /\ phase \in ValidationAndReport
                    /\ pc # "for_epoch")
                => params = (e + 1) * Len(trainloader)
          /\ train_cell = "done" => params = epochs * Len(trainloader))
    /\ [][OnlyOptimizerStepUpdates]_vars

\* the start of the second epoch's first batch, after two steps
C17_Witness ==
    /\ e = 1
    /\ pc = "zero_grad"
    /\ ti = 1
    /\ Len(trainloader) = 2
    /\ params = 2

\* C18 (as claimed): at every point, with e epochs completed, train_losses
\* and test_losses each hold exactly e entries.
C18_HistoryInStepAtEveryPoint ==
    /\ Len(train_losses) = e
    /\ Len(test_losses) = e

\* q2 is q1 with one entry added at its end
Appended(q1, q2) == Len(q2) = Len(q1) + 1 /\ SubSeq(q2, 1, Len(q1)) = q1

\* a step leaves each list as it is or, at line 483 or 484 of epoch e + 1,
\* adds entry e + 1 at its end
AppendOnlyStep ==
    /\ \/ train_losses' = train_losses
       \/ /\ pc = "append_train"
          /\ Len(train_losses) = e
          /\ Appended(train_losses, train_losses')
    /\ \/ test_losses' = test_losses
       \/ /\ pc = "append_test"
          /\ Len(test_losses) = e
          /\ Appended(test_losses, test_losses')

\* C18 (amended): the lists are append-only and within one entry of the
\* epoch counter.  With e epochs completed both hold e entries at the head
\* of the loop and when the loop has ended; inside epoch e + 1 each holds e
\* entries until line 483 appends to train_losses and line 484 to
\* test_losses, so test_losses is never longer than train_losses and at
\* most one entry shorter; when line 484 raises ZeroDivisionError the cell
\* ends with train_losses one entry longer than test_losses.  Entry e + 1
\* is added by epoch e + 1 and no entry is changed or removed afterwards.
C18_HistoryAppendOnly ==
    /\ [](/\ (pc = "for_epoch" \/ train_cell = "done")
                => Len(train_losses) = e /\ Len(test_losses) = e
          /\ Len(test_losses) <= Len(train_losses)
          /\ Len(train_losses) <= Len(test_losses) + 1
          /\ Len(test_losses) \in {e, e + 1}
          /\ pc \in {"print", "model_train"}
                => Len(train_losses) = e + 1 /\ Len(test_losses) = e + 1
          /\ (phase \in {"TrainingBatch", "EpochValidation"})
                => Len(train_losses) = e /\ Len(test_losses) = e
          /\ (train_cell = "raised" /\ phase = "EpochReport"
                    /\ Len(trainloader) > 0)
                => Len(train_losses) = e + 1 /\ Len(test_losses) = e)
    /\ [][AppendOnlyStep]_vars

\* between lines 483 and 484 of the second epoch
C18_Witness ==
    /\ pc = "append_test"
    /\ e = 1
    /\ Len(train_losses) = 2
    /\ Len(test_losses) = 1
    /\ train_losses[1] # train_losses[2]

ModeSwitches == {"model.eval", "model.train"}

IsNoModeSwitch(op) == op \notin ModeSwitches

Repeated(op, n) == [i \in 1 .. n |-> op]

\* what one epoch does apart from mode switches: a training step per training
\* batch, a validation step per validation batch, two appends, one line
EpochOps ==
    Repeated("train", Len(trainloader)) \o Repeated("val", Len(testloader))
        \o <<"append", "append", "report">>

RECURSIVE EpochsOps(_)
EpochsOps(k) == IF k = 0 THEN <<>> ELSE EpochsOps(k - 1) \o EpochOps

IsPrefix(q1, q2) == Len(q1) <= Len(q2) /\ SubSeq(q2, 1, Len(q1)) = q1

\* C19: apart from the mode switches both drivers do the same operations in
\* the same order, a sequence fixed by the splits and the number of epochs:
\* per epoch the training steps, the validation steps, the two appends and
\* the line.  The baseline driver switches no mode and its validation passes
\* run in train mode; the dropout driver switches to eval before each
\* validation pass and to train after each line.
C19_SameOperationsApartFromModeSwitches ==
    LET done == SelectSeq(trace, IsNoModeSwitch)
        switches == SelectSeq(trace, LAMBDA op : op \in ModeSwitches)
    IN  /\ IsPrefix(done, EpochsOps(epochs))
        /\ (train_cell = "running" /\ pc = "for_epoch") => done = EpochsOps(e)
        /\ train_cell = "done" => done = EpochsOps(epochs)
        /\ driver = "baseline" =>
              /\ switches = <<>>
              /\ mode = "train"
              /\ fwd.kind = "EpochValidation" => fwd.mode = "train"
        /\ driver = "dropout" =>
              /\ \A i \in DOMAIN switches :
                    switches[i] = IF i % 2 = 1 THEN "model.eval" ELSE "model.train"
              /\ (train_cell = "running" /\ pc = "for_epoch")
                    => Len(switches) = 2 * e

\* the baseline driver has ended after two epochs over two training and two
\* validation batches, its last validation pass made in train mode
C19_Witness ==
    /\ driver = "baseline"
    /\ train_cell = "done"
    /\ trace = EpochsOps(2)
    /\ Len(trainloader) = 2
    /\ Len(testloader) = 2
    /\ fwd.kind = "EpochValidation"
    /\ fwd.mode = "train"

====
